---- MODULE Spec2Model ----
(***************************************************************************)
(* A model of src/filesystem.rs of fcp: the POSIX file-type classifier     *)
(* file_type and the path resolver semicanonicalize, together with the     *)
(* wrapped filesystem calls they rest on.                                  *)
(*                                                                         *)
(* A path string is the non-empty sequence of the texts between its '/'    *)
(* separators: "" is <<"">>, "/" is <<"", "">>, "a//b/" is                 *)
(* <<"a", "", "b", "">>.  A location is the sequence of entry names from   *)
(* the root to an entry of the filesystem (the root is <<>>).              *)
(***************************************************************************)
EXTENDS Integers, Sequences, FiniteSets, TLC

VARIABLES
    fs,        \* the filesystem: location -> [kind, target]
    procCwd,   \* the working directory of the process (a location)
    call,      \* the last call made: [op, path, current_dir, fed]
    result     \* what that call returned

vars == <<fs, procCwd, call, result>>

----------------------------------------------------------------------------
(* Bounds of the model *)

\* the longest path string handed to semicanonicalize and file_type, in segments
MaxSegs == 3
\* the most entries the filesystem holds besides the root
MaxEntries == 2
\* the deepest location an entry is created at
MaxDepth == 2
\* the number of symbolic links one path resolution follows before ELOOP
SymloopMax == 6

Names == {"a", "b"}
Segs == Names \cup {"", ".", ".."}

Front(s) == SubSeq(s, 1, Len(s) - 1)
Last(s) == s[Len(s)]

SeqsUpTo(S, n) == UNION {[1..k -> S] : k \in 1..n}

\* the strings a caller passes as a path: every string of at most MaxSegs
\* segments, and the nested scenario x/y/../z
ScenarioPaths == {<<x, y, "..", z>> : x \in Names, y \in Names, z \in Names}
PathStrings == SeqsUpTo(Segs, MaxSegs) \cup ScenarioPaths

\* the current_dir arguments: "/", "/a" and the empty path
CurrentDirs == {<<"", "">>, <<"", "a">>, <<"">>}

Locs == {<<>>} \cup SeqsUpTo(Names, MaxDepth)

\* the display of a location as an absolute path string
ShowLoc(loc) == IF loc = <<>> THEN <<"", "">> ELSE <<"">> \o loc

\* the paths handed to the creating and removing wrappers
EntryPaths == {ShowLoc(l) : l \in Locs \ {<<>>}}

\* what a symbolic link may point to: "/a" and "b"
LinkTargets == {<<"", "a">>, <<"b">>}

NoPath == <<>>
NoTarget == <<>>

----------------------------------------------------------------------------
(* std::path: components, next_back, as_path, parent, join, pop *)

HasRoot(p) == Len(p) >= 2 /\ p[1] = ""

\* the component segment i of p parses to, as a sequence of zero or one
SegComponent(p, i) ==
    IF p[i] = "" THEN <<>>
    ELSE IF p[i] = "."
        THEN IF i = 1 THEN <<[kind |-> "CurDir", name |-> "."]>> ELSE <<>>
    ELSE IF p[i] = ".." THEN <<[kind |-> "ParentDir", name |-> ".."]>>
    ELSE <<[kind |-> "Normal", name |-> p[i]]>>

RECURSIVE BodyComponents(_, _)
BodyComponents(p, i) ==
    IF i > Len(p) THEN <<>>
    ELSE SegComponent(p, i) \o BodyComponents(p, i + 1)

Components(p) ==
    (IF HasRoot(p) THEN <<[kind |-> "RootDir", name |-> "/"]>> ELSE <<>>)
        \o BodyComponents(p, 1)

\* the last segment at or before n that parses to a component, or 0
LastSegAtOrBefore(p, n) ==
    LET hits == {i \in 1..n : SegComponent(p, i) # <<>>}
    IN  IF hits = {} THEN 0 ELSE CHOOSE i \in hits : \A j \in hits : j <= i

\* components.next_back() followed by components.as_path(): the last
\* component and the string of what precedes it, trailing separators and
\* "." segments trimmed
NextBack(p) ==
    LET i == LastSegAtOrBefore(p, Len(p))
    IN  IF i = 0
        THEN IF HasRoot(p)
             THEN [some |-> TRUE, last |-> [kind |-> "RootDir", name |-> "/"],
                   rest |-> <<"">>]
             ELSE [some |-> FALSE, last |-> [kind |-> "None", name |-> ""],
                   rest |-> <<"">>]
        ELSE LET j == LastSegAtOrBefore(p, i - 1)
             IN  [some |-> TRUE, last |-> SegComponent(p, i)[1],
                  rest |-> IF j = 0
                           THEN (IF HasRoot(p) THEN <<"", "">> ELSE <<"">>)
                           ELSE SubSeq(p, 1, j)]

IsEmptyOsStr(p) == p = <<"">>

\* a slip: a path right below the root is given no parent
Parent_NoneBelowRoot(p) ==
    LET nb == NextBack(p)
    IN  IF nb.some /\ nb.last.kind \in {"Normal", "CurDir", "ParentDir"}
              /\ Len(Components(nb.rest)) >= 2
        THEN [some |-> TRUE, path |-> nb.rest]
        ELSE [some |-> FALSE, path |-> NoPath]

\* Path::parent
Parent(p) ==
    LET nb == NextBack(p)
    IN  IF nb.some /\ nb.last.kind \in {"Normal", "CurDir", "ParentDir"}
        THEN [some |-> TRUE, path |-> nb.rest]
        ELSE [some |-> FALSE, path |-> NoPath]

\* a slip: the last component is cut off even when it is the root
Pop_PastRoot(p) == NextBack(p).rest

\* PathBuf::pop: truncate to the parent, or leave the path as it is
Pop(p) == IF Parent(p).some THEN Parent(p).path ELSE p

\* a slip: the name is appended after a separator whatever the base ends with
Join_AlwaysSeparator(base, filename) == base \o <<filename>>

\* Path::join of a file name: a separator is added unless the base is empty
\* or ends with one
Join(base, filename) ==
    IF Last(base) = "" THEN Front(base) \o <<filename>>
    ELSE base \o <<filename>>

\* current_dir == *ROOT: paths compare by their components
IsRoot(p) == Components(p) = Components(<<"", "">>)

----------------------------------------------------------------------------
(* The filesystem the wrapped calls act on *)

Node(kind, target) == [kind |-> kind, target |-> target]
DirNode == Node("dir", NoTarget)

NoErr == [kind |-> "None", tag |-> NoPath, cause |-> "none"]
\* Error::new(format!("{}: {}", path.display(), err))
IoErr(path, cause) == [kind |-> "Io", tag |-> path, cause |-> cause]

WalkOk(loc) == [ok |-> TRUE, loc |-> loc, err |-> "none", final |-> FALSE]
WalkErr(err, at, final) == [ok |-> FALSE, loc |-> at, err |-> err, final |-> final]

\* POSIX path resolution of the segments rest from the directory cur.
\* follow: whether a symbolic link named by the very last segment is
\* followed.  budget: the links that may still be followed.  A failure
\* records the location that was looked up and whether it was the last one.
RECURSIVE Walk(_, _, _, _)
Walk(cur, rest, budget, follow) ==
    IF rest = <<>> THEN WalkOk(cur)
    ELSE LET seg == Head(rest)
             tl == Tail(rest)
         IN  IF fs[cur].kind # "dir" THEN WalkErr("ENOTDIR", cur, FALSE)
             ELSE IF seg \in {"", "."} THEN Walk(cur, tl, budget, follow)
             ELSE IF seg = ".."
                 THEN Walk(IF cur = <<>> THEN cur ELSE Front(cur), tl, budget, follow)
             ELSE LET loc == Append(cur, seg)
                  IN  IF loc \notin DOMAIN fs
                          THEN WalkErr("ENOENT", loc, tl = <<>>)
                      ELSE IF fs[loc].kind = "symlink" /\ (follow \/ tl # <<>>)
                          THEN IF budget = 0 THEN WalkErr("ELOOP", loc, FALSE)
                               ELSE Walk(IF HasRoot(fs[loc].target) THEN <<>> ELSE cur,
                                         fs[loc].target \o tl, budget - 1, follow)
                      ELSE Walk(loc, tl, budget, follow)

\* resolution of a path string: the empty string names nothing, an absolute
\* path starts at the root and a relative one at the process's directory
Resolve(p, follow) ==
    IF p = <<"">> THEN WalkErr("ENOENT", <<>>, FALSE)
    ELSE Walk(IF HasRoot(p) THEN <<>> ELSE procCwd, p, SymloopMax, follow)

\* a slip: the raw error of fs::canonicalize is passed on, with no path
Canonicalize_Untagged(p) ==
    LET w == Resolve(p, TRUE)
    IN  IF w.ok THEN [ok |-> TRUE, path |-> ShowLoc(w.loc), err |-> NoErr]
        ELSE [ok |-> FALSE, path |-> NoPath,
              err |-> [kind |-> "Io", tag |-> NoPath, cause |-> w.err]]

\* a slip: a symbolic link in the last place of the prefix is not followed
Canonicalize_NoFollowLast(p) ==
    LET w == Resolve(p, FALSE)
    IN  IF w.ok THEN [ok |-> TRUE, path |-> ShowLoc(w.loc), err |-> NoErr]
        ELSE [ok |-> FALSE, path |-> NoPath, err |-> IoErr(p, w.err)]

\* wrap!(fs, canonicalize, PathBuf): realpath, the error tagged with the
\* argument of the wrapper
Canonicalize(p) ==
    LET w == Resolve(p, TRUE)
    IN  IF w.ok THEN [ok |-> TRUE, path |-> ShowLoc(w.loc), err |-> NoErr]
        ELSE [ok |-> FALSE, path |-> NoPath, err |-> IoErr(p, w.err)]

\* the metadata of the entry at a location
Metadata(loc) == [ino |-> loc, type |-> fs[loc].kind]

\* a slip: fs::metadata is wrapped, which follows a link in the last place
SymlinkMetadata_Follows(p) ==
    LET w == Resolve(p, TRUE)
    IN  IF w.ok THEN [ok |-> TRUE, metadata |-> Metadata(w.loc), err |-> NoErr]
        ELSE [ok |-> FALSE, metadata |-> Metadata(<<>>), err |-> IoErr(p, w.err)]

\* wrap!(fs, symlink_metadata, Metadata): lstat
SymlinkMetadata(p) ==
    LET w == Resolve(p, FALSE)
    IN  IF w.ok THEN [ok |-> TRUE, metadata |-> Metadata(w.loc), err |-> NoErr]
        ELSE [ok |-> FALSE, metadata |-> Metadata(<<>>), err |-> IoErr(p, w.err)]

----------------------------------------------------------------------------
(* file_type *)

FileType(variant, payload) == [variant |-> variant, metadata |-> payload]

\* the if-chain of file_type over the type bits of the probed metadata; the
\* payload is <<metadata>> for the variants that carry it and <<>> otherwise
Classify(metadata) ==
    IF metadata.type = "file" THEN FileType("Regular", <<>>)
    ELSE IF metadata.type = "dir" THEN FileType("Directory", <<metadata>>)
    ELSE IF metadata.type = "symlink" THEN FileType("Symlink", <<>>)
    ELSE IF metadata.type = "fifo" THEN FileType("Fifo", <<metadata>>)
    ELSE IF metadata.type = "socket" THEN FileType("Socket", <<>>)
    ELSE IF metadata.type = "char" THEN FileType("CharacterDevice", <<metadata>>)
    ELSE IF metadata.type = "block" THEN FileType("BlockDevice", <<metadata>>)
    ELSE FileType("unreachable", <<>>)

file_type(path) ==
    LET m == SymlinkMetadata(path)
    IN  IF ~m.ok THEN [ok |-> FALSE, value |-> FileType("none", <<>>), err |-> m.err]
        ELSE [ok |-> TRUE, value |-> Classify(m.metadata), err |-> NoErr]

----------------------------------------------------------------------------
(* semicanonicalize *)

EmptyPathErr == [kind |-> "EmptyPath", tag |-> NoPath, cause |-> "none"]
\* unknown_error(path.display())
unknown_error(path) == [kind |-> "Unknown", tag |-> path, cause |-> "none"]

Ok(path, calls) == [ok |-> TRUE, path |-> path, err |-> NoErr, calls |-> calls]
Err(err, calls) == [ok |-> FALSE, path |-> NoPath, err |-> err, calls |-> calls]

\* a slip: a name is joined to current_dir also when there is a prefix
Dispatch_NameOnCurrentDir(path, current_dir, last, prefix, prefix_exists, calls) ==
    IF last.kind = "CurDir" /\ prefix_exists THEN Ok(prefix, calls)
    ELSE IF last.kind = "CurDir" THEN Ok(current_dir, calls)
    ELSE IF last.kind = "Normal" THEN Ok(Join(current_dir, last.name), calls)
    ELSE IF last.kind = "ParentDir" /\ prefix_exists THEN Ok(Pop(prefix), calls)
    ELSE IF last.kind = "ParentDir" /\ IsRoot(current_dir) THEN Ok(current_dir, calls)
    ELSE IF last.kind = "ParentDir"
        THEN IF Parent(current_dir).some
             THEN Ok(Parent(current_dir).path, calls)
             ELSE Err(unknown_error(path), calls)
    ELSE IF last.kind = "RootDir" /\ ~prefix_exists THEN Ok(<<"", "">>, calls)
    ELSE Err(unknown_error(path), calls)

\* a slip: a lone "." is joined to current_dir and not replaced by it
Dispatch_DotAppended(path, current_dir, last, prefix, prefix_exists, calls) ==
    IF last.kind = "CurDir" /\ prefix_exists THEN Ok(prefix, calls)
    ELSE IF last.kind = "CurDir" THEN Ok(Join(current_dir, "."), calls)
    ELSE IF last.kind = "Normal" /\ prefix_exists
        THEN Ok(Join(prefix, last.name), calls)
    ELSE IF last.kind = "Normal" THEN Ok(Join(current_dir, last.name), calls)
    ELSE IF last.kind = "ParentDir" /\ prefix_exists THEN Ok(Pop(prefix), calls)
    ELSE IF last.kind = "ParentDir" /\ IsRoot(current_dir) THEN Ok(current_dir, calls)
    ELSE IF last.kind = "ParentDir"
        THEN IF Parent(current_dir).some
             THEN Ok(Parent(current_dir).path, calls)
             ELSE Err(unknown_error(path), calls)
    ELSE IF last.kind = "RootDir" /\ ~prefix_exists THEN Ok(<<"", "">>, calls)
    ELSE Err(unknown_error(path), calls)

\* the match on the last component; prefix is the canonicalized prefix when
\* prefix_exists.  calls lists the arguments canonicalize was called with.
Dispatch(path, current_dir, last, prefix, prefix_exists, calls) ==
    IF last.kind = "CurDir" /\ prefix_exists THEN Ok(prefix, calls)
    ELSE IF last.kind = "CurDir" THEN Ok(current_dir, calls)
    ELSE IF last.kind = "Normal" /\ prefix_exists
        THEN Ok(Join(prefix, last.name), calls)
    ELSE IF last.kind = "Normal" THEN Ok(Join(current_dir, last.name), calls)
    ELSE IF last.kind = "ParentDir" /\ prefix_exists THEN Ok(Pop(prefix), calls)
    ELSE IF last.kind = "ParentDir" /\ IsRoot(current_dir) THEN Ok(current_dir, calls)
    ELSE IF last.kind = "ParentDir"
        THEN IF Parent(current_dir).some
             THEN Ok(Parent(current_dir).path, calls)
             ELSE Err(unknown_error(path), calls)
    ELSE IF last.kind = "RootDir" /\ ~prefix_exists THEN Ok(<<"", "">>, calls)
    ELSE Err(unknown_error(path), calls)

\* a slip: the path is canonicalized before its last component is taken
semicanonicalize_CanonicalizesFirst(path, current_dir) ==
    LET c == Canonicalize(path)
        nb == NextBack(path)
    IN  IF ~c.ok THEN Err(c.err, <<path>>)
        ELSE IF ~nb.some THEN Err(EmptyPathErr, <<path>>)
        ELSE Dispatch(path, current_dir, nb.last, Pop(c.path),
                      ~IsEmptyOsStr(nb.rest), <<path>>)

semicanonicalize(path, current_dir) ==
    LET nb == NextBack(path)
    IN  IF ~nb.some THEN Err(EmptyPathErr, <<>>)
        ELSE LET prefix == nb.rest
                 prefix_exists == ~IsEmptyOsStr(prefix)
             IN  IF prefix_exists
                 THEN LET c == Canonicalize(prefix)
                      IN  IF ~c.ok THEN Err(c.err, <<prefix>>)
                          ELSE Dispatch(path, current_dir, nb.last, c.path,
                                        TRUE, <<prefix>>)
                 ELSE Dispatch(path, current_dir, nb.last, prefix, FALSE, <<>>)

----------------------------------------------------------------------------
(* The calls *)

Call(op, path, current_dir, fed) ==
    [op |-> op, path |-> path, current_dir |-> current_dir, fed |-> fed]

\* every call is synchronous: the next one starts once the caller has taken
\* the result of the last
NoCall == Call("none", NoPath, NoPath, FALSE)
Idle == call = NoCall

Done == [ok |-> TRUE, err |-> NoErr]
Failed(err) == [ok |-> FALSE, err |-> err]

AddEntry(loc, node) ==
    [l \in DOMAIN fs \cup {loc} |-> IF l = loc THEN node ELSE fs[l]]
RemoveEntry(loc) == [l \in DOMAIN fs \ {loc} |-> fs[l]]

\* the model keeps the filesystem within its bounds
CanAdd(loc) == Cardinality(DOMAIN fs) - 1 < MaxEntries /\ Len(loc) <= MaxDepth

\* a call that creates the entry its path names, without following a link
\* in the last place: mkdir, symlink, mkfifo
CreateEntry(op, path, node) ==
    LET w == Resolve(path, FALSE)
        missing == ~w.ok /\ w.err = "ENOENT" /\ w.final
    IN  /\ Idle
        /\ missing => CanAdd(w.loc)
        /\ fs' = IF missing THEN AddEntry(w.loc, node) ELSE fs
        /\ call' = Call(op, path, NoPath, FALSE)
        /\ result' = IF missing THEN Done
                     ELSE Failed(IoErr(path, IF w.ok THEN "EEXIST" ELSE w.err))
        /\ UNCHANGED procCwd

create_dir ==
    \E path \in EntryPaths : CreateEntry("create_dir", path, DirNode)

symlink ==
    \E source \in LinkTargets, dest \in EntryPaths :
        CreateEntry("symlink", dest, Node("symlink", source))

mkfifo ==
    \E path \in EntryPaths : CreateEntry("mkfifo", path, Node("fifo", NoTarget))

\* open with create, truncate and write: a link in the last place is followed
create ==
    \E path \in EntryPaths :
        LET w == Resolve(path, TRUE)
            missing == ~w.ok /\ w.err = "ENOENT" /\ w.final
        IN  /\ Idle
            /\ missing => CanAdd(w.loc)
            /\ fs' = IF missing THEN AddEntry(w.loc, Node("file", NoTarget)) ELSE fs
            /\ call' = Call("create", path, NoPath, FALSE)
            /\ result' = IF missing THEN Done
                         ELSE IF w.ok
                             THEN IF fs[w.loc].kind = "dir"
                                  THEN Failed(IoErr(path, "EISDIR")) ELSE Done
                         ELSE Failed(IoErr(path, w.err))
            /\ UNCHANGED procCwd

\* unlink: removes anything but a directory, a link itself and not its target
remove_file ==
    \E path \in EntryPaths :
        LET w == Resolve(path, FALSE)
            removable == w.ok /\ fs[w.loc].kind # "dir"
        IN  /\ Idle
            /\ fs' = IF removable THEN RemoveEntry(w.loc) ELSE fs
            /\ call' = Call("remove_file", path, NoPath, FALSE)
            /\ result' = IF removable THEN Done
                         ELSE Failed(IoErr(path, IF w.ok THEN "EISDIR" ELSE w.err))
            /\ UNCHANGED procCwd

FileTypeCall ==
    \E path \in PathStrings :
        /\ Idle
        /\ call' = Call("file_type", path, NoPath, FALSE)
        /\ result' = file_type(path)
        /\ UNCHANGED <<fs, procCwd>>

SemicanonicalizeCall ==
    \E path \in PathStrings, current_dir \in CurrentDirs :
        /\ Idle
        /\ call' = Call("semicanonicalize", path, current_dir, FALSE)
        /\ result' = semicanonicalize(path, current_dir)
        /\ UNCHANGED <<fs, procCwd>>

\* the caller hands a resolved path back to semicanonicalize
SemicanonicalizeAgain ==
    /\ call.op = "semicanonicalize"
    /\ result.ok
    /\ call' = Call("semicanonicalize", result.path, call.current_dir, TRUE)
    /\ result' = semicanonicalize(result.path, call.current_dir)
    /\ UNCHANGED <<fs, procCwd>>

\* the caller takes the returned value and goes on
Return ==
    /\ ~Idle
    /\ call' = NoCall
    /\ result' = Done
    /\ UNCHANGED <<fs, procCwd>>

----------------------------------------------------------------------------
(* The specifications *)

\* the filesystems a run starts from: the root, the process's directory
\* when it is not the root, and at most one socket or device node /b
Preexisting == {"socket", "char", "block"}

Init ==
    /\ procCwd \in {<<>>, <<"a">>}
    /\ fs = [l \in {<<>>, procCwd} |-> DirNode]
    /\ call = NoCall
    /\ result = Done

Next ==
    \/ create_dir
    \/ symlink
    \/ create
    \/ remove_file
    \/ SemicanonicalizeCall
    \/ SemicanonicalizeAgain
    \/ Return

Spec == Init /\ [][Next]_vars

InitFT ==
    /\ procCwd = <<>>
    /\ \E k \in Preexisting :
           fs = [l \in {<<>>, <<"b">>} |->
                    IF l = <<>> THEN DirNode ELSE Node(k, NoTarget)]
    /\ call = NoCall
    /\ result = Done

NextFT ==
    \/ create_dir
    \/ symlink
    \/ create
    \/ mkfifo
    \/ remove_file
    \/ FileTypeCall
    \/ Return

SpecFT == InitFT /\ [][NextFT]_vars

----------------------------------------------------------------------------
(* What the claims are stated with: the filesystem's own answers, read
   through Resolve, and the components of the paths *)

IsSemi == call.op = "semicanonicalize"
IsName(seg) == seg \notin {"", ".", ".."}

\* the location a path resolves to, every link followed
Real(p) == Resolve(p, TRUE)
\* p names an existing directory
DirAt(p) == Real(p).ok /\ fs[Real(p).loc].kind = "dir"
\* p is the canonical absolute name of an existing entry
IsCanonical(p) == Real(p).ok /\ ShowLoc(Real(p).loc) = p
CanonDir(p) == IsCanonical(p) /\ DirAt(p)

ParentLoc(loc) == IF loc = <<>> THEN loc ELSE Front(loc)

\* the path string of a sequence of components
CompString(cs) ==
    LET names(xs) == [i \in 1..Len(xs) |-> xs[i].name]
    IN  IF cs = <<>> THEN <<"">>
        ELSE IF cs[1].kind = "RootDir"
            THEN IF Len(cs) = 1 THEN <<"", "">> ELSE <<"">> \o names(Tail(cs))
        ELSE names(cs)

\* the components of the call's path, and the path of all but the last
PathComps == Components(call.path)
PrefixOf(p) == CompString(Front(Components(p)))
HasPrefix(p) == Len(Components(p)) >= 2

\* the directory part d of a path string d/n
DirPart(p) == IF Front(p) = <<"">> THEN <<"", "">> ELSE Front(p)

\* all of an absolute path string but its last segment
Upper(r) == IF Len(r) <= 2 THEN <<"", "">> ELSE Front(r)

----------------------------------------------------------------------------
(* The claims *)

\* C1: for every existing directory d, reached through symbolic links or
\* not, and every named segment n, semicanonicalize(d/n, current_dir)
\* succeeds with the canonical location of d joined with n, whatever is or
\* is not at n.
C1_JoinsNameUnderCanonicalDir ==
    (IsSemi /\ Len(call.path) >= 2 /\ IsName(Last(call.path))
        /\ DirAt(DirPart(call.path)))
    => /\ result.ok
       /\ result.path
            = ShowLoc(Append(Real(DirPart(call.path)).loc, Last(call.path)))

\* C1 witness: d is a symbolic link to a directory and n does not exist
C1_Witness ==
    /\ IsSemi /\ Len(call.path) = 2 /\ IsName(Last(call.path))
    /\ IsName(call.path[1])
    /\ DirAt(DirPart(call.path))
    /\ fs[Append(procCwd, call.path[1])].kind = "symlink"
    /\ Append(Real(DirPart(call.path)).loc, Last(call.path)) \notin DOMAIN fs
    /\ result.ok

\* C2: a path with no components fails with the empty-path error, for every
\* current_dir, and canonicalize has not been called.
C2_EmptyPathFailsFirst ==
    (IsSemi /\ PathComps = <<>>)
    => /\ ~result.ok
       /\ result.err.kind = "EmptyPath"
       /\ result.calls = <<>>

\* C2 witness: semicanonicalize was called with the empty path
C2_Witness ==
    IsSemi /\ call.path = <<"">> /\ ~result.ok /\ call.current_dir # <<"">>

\* C3: when the last component is "..", the result never leaves the root:
\* with a prefix it is the canonical location of the prefix less its last
\* name (the root for a prefix that resolves to the root), and the call
\* fails if the prefix does not resolve; without a prefix it is current_dir
\* itself when that is the root and else current_dir less its last
\* component.  For an existing canonical r other than the root, r/.. gives
\* r less its last segment.
C3_ParentDirStaysBelowRoot ==
    (IsSemi /\ PathComps # <<>> /\ Last(PathComps).kind = "ParentDir")
    => /\ HasPrefix(call.path) =>
            /\ result.ok = Real(PrefixOf(call.path)).ok
            /\ result.ok =>
                 result.path = ShowLoc(ParentLoc(Real(PrefixOf(call.path)).loc))
       /\ (~HasPrefix(call.path) /\ IsRoot(call.current_dir)) =>
            (result.ok /\ result.path = call.current_dir)
       /\ (~HasPrefix(call.path) /\ ~IsRoot(call.current_dir)) =>
            /\ result.ok = (Components(call.current_dir) # <<>>)
            /\ result.ok =>
                 /\ Components(result.path) = Front(Components(call.current_dir))
                 /\ HasRoot(call.current_dir) => HasRoot(result.path)
       /\ (Last(call.path) = ".." /\ Len(call.path) >= 2
              /\ IsCanonical(Front(call.path)) /\ Front(call.path) # <<"", "">>)
          => (result.ok /\ result.path = Upper(Front(call.path)))

\* C3 witness: r/.. for an existing canonical r below the root
C3_Witness ==
    /\ IsSemi /\ Len(call.path) = 3 /\ Last(call.path) = ".."
    /\ IsCanonical(Front(call.path))
    /\ result.ok /\ result.path = <<"", "">>

\* C4: when the path ends in ".", the result is current_dir unchanged if
\* nothing precedes the "." and the canonicalized prefix if something does,
\* so that the prefix has to exist and is resolved through its links
\* (stated for a caller that passes the process's directory as current_dir).
C4_FinalDotYieldsPrefix ==
    (IsSemi /\ Last(call.path) = "." /\ call.current_dir = ShowLoc(procCwd))
    => /\ Len(call.path) = 1 => (result.ok /\ result.path = call.current_dir)
       /\ Len(call.path) >= 2 =>
            /\ result.ok = Real(DirPart(call.path)).ok
            /\ result.ok =>
                 result.path = ShowLoc(Real(DirPart(call.path)).loc)

\* C5 as stated: a/b/../c, with a/b an existing directory and a under the
\* current directory, resolves to the canonical location of a joined with
\* c, also when a or b is a symbolic link.
C5_NestedParentOriginal ==
    (IsSemi /\ call.path \in ScenarioPaths
        /\ DirAt(SubSeq(call.path, 1, 2))
        /\ call.current_dir = ShowLoc(procCwd))
    => /\ result.ok
       /\ result.path
            = ShowLoc(Append(Real(SubSeq(call.path, 1, 1)).loc, call.path[4]))

\* the entry a/b itself, no link followed in the last place
EntryOfB(p) == Resolve(SubSeq(p, 1, 2), FALSE)

\* C5 amended: a/b/../c, with a/b an existing directory, resolves to the
\* parent of the directory a/b resolves to, joined with c; that is the
\* canonical location of a joined with c whenever b itself is a directory
\* and not a symbolic link.
C5_NestedParent ==
    (IsSemi /\ call.path \in ScenarioPaths /\ DirAt(SubSeq(call.path, 1, 2)))
    => /\ result.ok
       /\ result.path
            = ShowLoc(Append(ParentLoc(Real(SubSeq(call.path, 1, 2)).loc),
                             call.path[4]))
       /\ fs[EntryOfB(call.path).loc].kind = "dir" =>
            result.path
              = ShowLoc(Append(Real(SubSeq(call.path, 1, 1)).loc, call.path[4]))

\* C5 witness: a/b is a directory that is no link and c does not exist
C5_Witness ==
    /\ IsSemi /\ call.path \in ScenarioPaths
    /\ DirAt(SubSeq(call.path, 1, 2))
    /\ fs[EntryOfB(call.path).loc].kind = "dir"
    /\ result.ok
    /\ ~Real(result.path).ok

\* C6 as stated: an error for a prefix that cannot be canonicalized carries
\* the path semicanonicalize was called with.
C6_ErrorCarriesInputOriginal ==
    (IsSemi /\ ~result.ok /\ result.err.kind = "Io")
    => result.err.tag = call.path

\* C6 amended: an internal-consistency error carries the path
\* semicanonicalize was called with; an error for a prefix that cannot be
\* canonicalized carries the prefix handed to canonicalize, which is the
\* input path less its last component and never the input path itself; the
\* empty-path error carries no path.
C6_ErrorTags ==
    (IsSemi /\ ~result.ok)
    => /\ result.err.kind \in {"EmptyPath", "Io", "Unknown"}
       /\ result.err.kind = "Unknown" => result.err.tag = call.path
       /\ result.err.kind = "EmptyPath" => result.err.tag = NoPath
       /\ result.err.kind = "Io" =>
            /\ result.err.tag # call.path
            /\ Components(result.err.tag) = Front(PathComps)
            /\ result.calls = <<result.err.tag>>
            /\ result.err.cause \in {"ENOENT", "ENOTDIR", "ELOOP"}

\* C6 witness: the prefix is caught in a loop of symbolic links
C6_Witness ==
    IsSemi /\ ~result.ok /\ result.err.kind = "Io" /\ result.err.cause = "ELOOP"

\* r is absolute and all of it but its last segment is the canonical name
\* of an existing directory
PrefixCanonical(r) == HasRoot(r) /\ CanonDir(Upper(r))

\* C7 as stated: for a path with components and any absolute current_dir,
\* a returned path is absolute and everything before its last component is
\* an existing directory named canonically.
C7_PrefixCanonicalOriginal ==
    (IsSemi /\ PathComps # <<>> /\ HasRoot(call.current_dir) /\ result.ok)
    => PrefixCanonical(result.path)

\* the prefix of the call's path names an entry that is not a directory
PrefixIsNoDir ==
    /\ HasPrefix(call.path)
    /\ Real(PrefixOf(call.path)).ok
    /\ fs[Real(PrefixOf(call.path)).loc].kind # "dir"

\* C7 amended: for a path with components and a current_dir that is the
\* canonical name of an existing directory, a returned path is absolute and
\* everything before its last component is the canonical name of an
\* existing entry; that entry is a directory unless the path is a name
\* appended to a prefix that resolves to something else than a directory.
C7_PrefixCanonical ==
    (IsSemi /\ PathComps # <<>> /\ CanonDir(call.current_dir) /\ result.ok)
    => /\ HasRoot(result.path)
       /\ IsCanonical(Upper(result.path))
       /\ ~DirAt(Upper(result.path)) =>
            (Last(PathComps).kind = "Normal" /\ PrefixIsNoDir)

\* C7 witness: a bare name falls back to a current_dir below the root
C7_Witness ==
    /\ IsSemi /\ Len(PathComps) = 1 /\ Last(PathComps).kind = "Normal"
    /\ CanonDir(call.current_dir) /\ ~IsRoot(call.current_dir)
    /\ result.ok /\ Len(result.path) = 3

\* C8: for a path with components and an absolute current_dir neither
\* internal-consistency error is returned: the root is never the last
\* component after a prefix, and current_dir has a parent whenever ".."
\* stands alone and current_dir is not the root.
C8_NoUnknownError ==
    (IsSemi /\ PathComps # <<>> /\ HasRoot(call.current_dir))
    => /\ result.err.kind # "Unknown"
       /\ Last(PathComps).kind = "RootDir" => ~HasPrefix(call.path)
       /\ (Last(PathComps).kind = "ParentDir" /\ ~HasPrefix(call.path))
            => result.ok

\* C8 witness: ".." alone under an absolute current_dir that is not the root
C8_Witness ==
    /\ IsSemi /\ Len(PathComps) = 1 /\ Last(PathComps).kind = "ParentDir"
    /\ HasRoot(call.current_dir) /\ ~IsRoot(call.current_dir)
    /\ result.ok

\* C10: with current_dir the canonical name of an existing directory, a
\* path semicanonicalize returned is returned unchanged when it is handed
\* back on the same filesystem.
C10_Idempotent ==
    (IsSemi /\ call.fed /\ CanonDir(call.current_dir))
    => (result.ok /\ result.path = call.path)

\* C10 witness: a returned path whose last segment does not exist was
\* handed back
C10_Witness ==
    /\ IsSemi /\ call.fed /\ CanonDir(call.current_dir)
    /\ result.ok /\ ~Real(result.path).ok

\* the variant that stands for each POSIX type, and the variants that carry
\* the probed metadata
VariantOf ==
    [file |-> "Regular", dir |-> "Directory", symlink |-> "Symlink",
     fifo |-> "Fifo", socket |-> "Socket", char |-> "CharacterDevice",
     block |-> "BlockDevice"]
CarryMetadata == {"Directory", "Fifo", "CharacterDevice", "BlockDevice"}

\* the entry a path names when a link in its last place is not followed
Entry(p) == Resolve(p, FALSE)

\* C9: for an existing entry file_type returns the one variant of the
\* entry's own type, a symbolic link being Symlink whatever it points to;
\* the metadata of the entry is carried by Directory, Fifo, CharacterDevice
\* and BlockDevice and by no other variant; for a path that names nothing
\* it returns an error that names the path.
C9_FileTypeClassifies ==
    call.op = "file_type"
    => /\ result.ok = Entry(call.path).ok
       /\ result.ok =>
            /\ result.value.variant = VariantOf[fs[Entry(call.path).loc].kind]
            /\ result.value.variant \in CarryMetadata =>
                 /\ Len(result.value.metadata) = 1
                 /\ result.value.metadata[1].ino = Entry(call.path).loc
            /\ result.value.variant \notin CarryMetadata =>
                 result.value.metadata = <<>>
       /\ (IsName(Last(call.path)) /\ Len(call.path) >= 2
              /\ DirAt(DirPart(call.path))
              /\ Append(Real(DirPart(call.path)).loc, Last(call.path))
                    \in DOMAIN fs)
          => /\ result.ok
             /\ fs[Append(Real(DirPart(call.path)).loc, Last(call.path))].kind
                    = "symlink"
                => result.value.variant = "Symlink"
       /\ ~result.ok =>
            (result.err.kind = "Io" /\ result.err.tag = call.path)

\* C9 witness: a dangling symbolic link is classified as Symlink
C9_Witness ==
    /\ call.op = "file_type"
    /\ result.ok /\ result.value.variant = "Symlink"
    /\ ~Real(call.path).ok /\ Real(call.path).err = "ENOENT"

====
